---- MODULE Spec2Model ----
(***************************************************************************)
(* Verification model of AVES: the arrangement core (src/src/core: Clip,    *)
(* Track and Timeline with their mutators), the clocks of playback         *)
(* (playback/sync.rs, media/audio.rs, audio/player.rs), the PlaybackEngine *)
(* (playback/engine.rs) and the FrameCache (decode/frame_cache.rs).  Each  *)
(* part has a specification of its own over the one tuple of variables;    *)
(* the variables of the other parts stay as constructed.                   *)
(*                                                                         *)
(* Time is the i64 nanosecond count of core/time.rs.  Times are drawn from *)
(* a small window around the timeline origin, negative values included     *)
(* (Time is signed and Clip::new validates nothing); the window is far     *)
(* from the i64 limits, so the additions below never wrap.                 *)
(***************************************************************************)
EXTENDS Integers, Sequences, FiniteSets, TLC

VARIABLES
    timeline,   \* core::timeline::Timeline owned by the editing session
    track,      \* a core::track::Track used on its own
    clip,       \* a core::clip::Clip held directly by a caller
    ctor,       \* the value Clip::new returned for `clip`
    arg,        \* the Clip handed to the most recent Track::add_clip
    last,       \* the most recent call: operation, scalar argument, return value
    sync,       \* playback::sync::SyncController
    player,     \* audio::player::AudioPlayer
    state,      \* playback::state::PlaybackState held by the PlaybackEngine
    aclock,     \* media::audio::AudioClock
    cb,         \* the audio callback thread: its position and its locals
    observed,   \* clock values read since the last control call, oldest first
    log,        \* the most recent calls on the SyncController, oldest first
    cache,      \* decode::frame_cache::FrameCache
    exporter    \* export::exporter::Exporter and the export() call it runs

vars == <<timeline, track, clip, ctor, arg, last,
          sync, player, state, aclock, cb, observed, log, cache, exporter>>

\* the variables of the arrangement core, and all the others
core_vars == <<timeline, track, clip, ctor, arg>>
non_core_vars ==
    <<sync, player, state, aclock, cb, observed, log, cache, exporter>>

----------------------------------------------------------------------------
(* The explored input space *)

MaxClips == 2       \* clips held by a Timeline (both tracks together)
MaxTrackClips == 2  \* clips held by a Track used on its own
MaxPoint == 3       \* in_point / out_point of a Clip used on its own: 0..MaxPoint

\* arguments of Clip::new for the clips handed to a Track or a Timeline
ClipIds == {1, 2}
InPoints == 0..1
OutPoints == 0..2
StartTimes == (0 - 2)..1
SourcePaths == {"a.mp4"}
StreamIndexes == {0}
\* set_playhead / move arguments: one step beyond every clip boundary
Positions == (0 - 1)..4
\* trim arguments: one step beyond the source range on either side
TrimPoints == (0 - 1)..(MaxPoint + 1)
\* source / timeline times a clip's mappings are examined at: beyond every
\* range a trimmed and moved clip can have
Times == (0 - 3)..(MaxPoint + 5)

\* playback: positions handed to start / seek / Play, and the durations of
\* the buffers the audio callback commits
ClockPositions == {0, 2}
Durations == {1, 2}
\* Seek targets: before the origin, inside and beyond a timeline of length 3
SeekTargets == {0 - 1, 2, 4}
MaxClock == 4       \* the audio callback stops advancing a clock at MaxClock
LogLen == 4         \* calls on the SyncController kept in the log

\* frame cache: sources, frame timestamps, frame contents, and the
\* capacities a cache is configured with
CachePaths == {"a.mp4", "b.mp4"}
FrameTimes == 0..2
FrameData == {0, 1}
Capacities == {1, 3, 4}

Max2(a, b) == IF a >= b THEN a ELSE b
Min2(a, b) == IF a <= b THEN a ELSE b

----------------------------------------------------------------------------
(* core/clip.rs *)

\* Clip::new: timeline_end is derived; no argument is validated
ClipNew(id, source_path, in_point, out_point, timeline_start, stream_index) ==
    LET duration == out_point - in_point
        timeline_end == timeline_start + duration
    IN [id |-> id,
        source_path |-> source_path,
        in_point |-> in_point,
        out_point |-> out_point,
        timeline_start |-> timeline_start,
        timeline_end |-> timeline_end,
        stream_index |-> stream_index]

\* the values Clip::new returns for the bounded arguments; a source range
\* that starts at 1 is taken only with out_point 0 (the range that ends before
\* it begins), the lengths 0, 1 and 2 being taken from in_point 0
Clips ==
    {ClipNew(id, p, r[1], r[2], s, x) :
        id \in ClipIds, p \in SourcePaths,
        r \in {r \in InPoints \X OutPoints : r[1] = 0 \/ r[2] = 0},
        s \in StartTimes, x \in StreamIndexes}

\* the clips handed to a Timeline: those cut from the start of the source
\* with out_point > in_point
TimelineClips == {c \in Clips : c.in_point = 0 /\ c.out_point > c.in_point}

\* the clips a caller constructs to trim and move them
SoloClips ==
    {ClipNew(1, p, i, o, s, x) :
        p \in SourcePaths, i \in 0..MaxPoint, o \in 0..MaxPoint,
        s \in StartTimes, x \in StreamIndexes}

\* placeholder where a call has no clip argument / returns None
NoClip == ClipNew(0, "", 0, 0, 0, 0)

\* Clip::duration
ClipDuration(self) == self.out_point - self.in_point

\* Option<Time>: None and Some(t)
None == [some |-> FALSE, val |-> 0]
Some(t) == [some |-> TRUE, val |-> t]

\* contains whose upper end is exclusive
contains_half_open(self, timeline_position) ==
    timeline_position >= self.timeline_start /\ timeline_position < self.timeline_end

\* Clip::contains
contains(self, timeline_position) ==
    timeline_position >= self.timeline_start /\ timeline_position <= self.timeline_end

\* Clip::timeline_to_source
timeline_to_source(self, timeline_position) ==
    IF ~contains(self, timeline_position) THEN None
    ELSE LET offset == timeline_position - self.timeline_start
             source_time == self.in_point + offset
         IN Some(source_time)

\* Clip::source_to_timeline
source_to_timeline(self, source_position) ==
    IF source_position < self.in_point \/ source_position > self.out_point
    THEN None
    ELSE LET offset == source_position - self.in_point
             timeline_time == self.timeline_start + offset
         IN Some(timeline_time)

\* overlaps_with that counts clips touching at a boundary as overlapping
overlaps_with_touching(self, other) ==
    ~(self.timeline_end < other.timeline_start
      \/ other.timeline_end < self.timeline_start)

\* Clip::overlaps_with
overlaps_with(self, other) ==
    ~(self.timeline_end <= other.timeline_start
      \/ other.timeline_end <= self.timeline_start)

\* trim_in with the upper check off by one: new_in_point = out_point passes
trim_in_accepts_out_point(self, new_in_point) ==
    IF new_in_point < self.in_point \/ new_in_point > self.out_point
    THEN [clip |-> self, ret |-> FALSE]
    ELSE LET trim_amount == new_in_point - self.in_point
         IN [clip |-> [self EXCEPT !.in_point = new_in_point,
                                   !.timeline_start = @ + trim_amount],
             ret |-> TRUE]

\* trim_in that forgets to shift timeline_start
trim_in_keeps_start(self, new_in_point) ==
    IF new_in_point < self.in_point \/ new_in_point >= self.out_point
    THEN [clip |-> self, ret |-> FALSE]
    ELSE [clip |-> [self EXCEPT !.in_point = new_in_point], ret |-> TRUE]

\* Clip::trim_in: the clip after the call and the returned bool
trim_in(self, new_in_point) ==
    IF new_in_point < self.in_point \/ new_in_point >= self.out_point
    THEN [clip |-> self, ret |-> FALSE]
    ELSE LET trim_amount == new_in_point - self.in_point
         IN [clip |-> [self EXCEPT !.in_point = new_in_point,
                                   !.timeline_start = @ + trim_amount],
             ret |-> TRUE]

\* trim_out that forgets to re-derive timeline_end
trim_out_stale_end(self, new_out_point) ==
    IF new_out_point <= self.in_point \/ new_out_point > self.out_point
    THEN [clip |-> self, ret |-> FALSE]
    ELSE [clip |-> [self EXCEPT !.out_point = new_out_point], ret |-> TRUE]

\* Clip::trim_out
trim_out(self, new_out_point) ==
    IF new_out_point <= self.in_point \/ new_out_point > self.out_point
    THEN [clip |-> self, ret |-> FALSE]
    ELSE LET trimmed == [self EXCEPT !.out_point = new_out_point]
             new_duration == ClipDuration(trimmed)
         IN [clip |-> [trimmed EXCEPT !.timeline_end =
                                        trimmed.timeline_start + new_duration],
             ret |-> TRUE]

\* Clip::set_timeline_start
set_timeline_start(self, new_timeline_start) ==
    LET duration == ClipDuration(self)
    IN [self EXCEPT !.timeline_start = new_timeline_start,
                    !.timeline_end = new_timeline_start + duration]

\* Clip::move_to
move_to(self, new_timeline_start) ==
    set_timeline_start(self, new_timeline_start)

----------------------------------------------------------------------------
(* core/track.rs *)

\* Track::new
TrackNew(id, track_type) ==
    [id |-> id, track_type |-> track_type, clips |-> <<>>,
     muted |-> FALSE, volume |-> 1]

\* one insertion step of a stable sort: c goes behind every element whose
\* key is <= its own
InsertByKey(sorted, c) ==
    LET n == Cardinality({i \in 1..Len(sorted) :
                            sorted[i].timeline_start <= c.timeline_start})
    IN SubSeq(sorted, 1, n) \o <<c>> \o SubSeq(sorted, n + 1, Len(sorted))

\* clips.sort_by_key(|c| c.timeline_start): a stable sort
RECURSIVE sort_by_key(_)
sort_by_key(s) ==
    IF s = <<>> THEN <<>>
    ELSE InsertByKey(sort_by_key(SubSeq(s, 1, Len(s) - 1)), s[Len(s)])

\* add_clip that pushes without sorting
add_clip_unsorted(self, c) ==
    IF \E i \in 1..Len(self.clips) : overlaps_with(c, self.clips[i])
    THEN [track |-> self, ok |-> FALSE, clip_id |-> c.id]
    ELSE [track |-> [self EXCEPT !.clips = Append(@, c)],
          ok |-> TRUE, clip_id |-> 0]

\* add_clip that pushes and sorts before it validates
add_clip_push_first(self, c) ==
    LET pushed == [self EXCEPT !.clips = sort_by_key(Append(@, c))]
    IN IF \E i \in 1..Len(self.clips) : overlaps_with(c, self.clips[i])
       THEN [track |-> pushed, ok |-> FALSE, clip_id |-> c.id]
       ELSE [track |-> pushed, ok |-> TRUE, clip_id |-> 0]

\* add_clip whose error names the first existing clip it collided with
add_clip_names_existing(self, c) ==
    IF \E i \in 1..Len(self.clips) : overlaps_with(c, self.clips[i])
    THEN LET first == CHOOSE i \in 1..Len(self.clips) :
                        /\ overlaps_with(c, self.clips[i])
                        /\ \A j \in 1..(i - 1) : ~overlaps_with(c, self.clips[j])
         IN [track |-> self, ok |-> FALSE, clip_id |-> self.clips[first].id]
    ELSE [track |-> [self EXCEPT !.clips = sort_by_key(Append(@, c))],
          ok |-> TRUE, clip_id |-> 0]

\* Track::add_clip: returns the track after the call and the Result
add_clip(self, c) ==
    IF \E i \in 1..Len(self.clips) : overlaps_with(c, self.clips[i])
    THEN [track |-> self, ok |-> FALSE, clip_id |-> c.id]
    ELSE [track |-> [self EXCEPT !.clips = sort_by_key(Append(@, c))],
          ok |-> TRUE, clip_id |-> 0]

\* clips.iter().position(|c| c.id == clip_id): 0 stands for None
Position(clips, clip_id) ==
    IF \E i \in 1..Len(clips) : clips[i].id = clip_id
    THEN CHOOSE i \in 1..Len(clips) :
            /\ clips[i].id = clip_id
            /\ \A j \in 1..(i - 1) : clips[j].id # clip_id
    ELSE 0

\* Track::remove_clip: returns the track after the call and the Option<Clip>
remove_clip(self, clip_id) ==
    LET pos == Position(self.clips, clip_id)
    IN IF pos # 0
       THEN [track |-> [self EXCEPT !.clips =
                            SubSeq(@, 1, pos - 1) \o SubSeq(@, pos + 1, Len(@))],
             some |-> TRUE, removed |-> self.clips[pos]]
       ELSE [track |-> self, some |-> FALSE, removed |-> NoClip]

RECURSIVE MaxEnd(_)
MaxEnd(clips) ==
    IF Len(clips) = 1 THEN clips[1].timeline_end
    ELSE Max2(clips[1].timeline_end, MaxEnd(Tail(clips)))

\* Track::duration: the greatest timeline_end, 0 for an empty track
TrackDuration(self) ==
    IF self.clips = <<>> THEN 0 ELSE MaxEnd(self.clips)

----------------------------------------------------------------------------
(* core/timeline.rs *)

\* Timeline::new
TimelineNew ==
    [video_track |-> TrackNew(1, "Video"),
     audio_track |-> TrackNew(2, "Audio"),
     duration |-> 0,
     playhead |-> 0]

\* update_duration that looks at the video track only
update_duration_video_only(tl) ==
    [tl EXCEPT !.duration = TrackDuration(tl.video_track)]

\* Timeline::update_duration
update_duration(tl) ==
    LET video_duration == TrackDuration(tl.video_track)
        audio_duration == TrackDuration(tl.audio_track)
    IN [tl EXCEPT !.duration = Max2(video_duration, audio_duration)]

\* record of a call: num is its scalar argument (clip id, position, point),
\* ok its Ok / Some / true, out_id the clip_id of a returned TrackError or
\* the time inside a returned Some
Call(op, num, ok, out_id) ==
    [op |-> op, num |-> num, ok |-> ok, out_id |-> out_id]

TotalClips == Len(timeline.video_track.clips) + Len(timeline.audio_track.clips)

\* Timeline::add_video_clip: `?` returns before update_duration on Err
add_video_clip(c) ==
    /\ TotalClips < MaxClips
    /\ LET r == add_clip(timeline.video_track, c)
           tl == [timeline EXCEPT !.video_track = r.track]
       IN /\ timeline' = IF r.ok THEN update_duration(tl) ELSE tl
          /\ last' = Call("add_video_clip", c.id, r.ok, r.clip_id)
    /\ UNCHANGED <<track, clip, ctor, arg>>
    /\ UNCHANGED non_core_vars

\* Timeline::add_audio_clip
add_audio_clip(c) ==
    /\ TotalClips < MaxClips
    /\ LET r == add_clip(timeline.audio_track, c)
           tl == [timeline EXCEPT !.audio_track = r.track]
       IN /\ timeline' = IF r.ok THEN update_duration(tl) ELSE tl
          /\ last' = Call("add_audio_clip", c.id, r.ok, r.clip_id)
    /\ UNCHANGED <<track, clip, ctor, arg>>
    /\ UNCHANGED non_core_vars

\* Timeline::remove_video_clip
remove_video_clip(clip_id) ==
    /\ LET result == remove_clip(timeline.video_track, clip_id)
           tl == [timeline EXCEPT !.video_track = result.track]
       IN /\ timeline' = IF result.some THEN update_duration(tl) ELSE tl
          /\ last' = Call("remove_video_clip", clip_id, result.some, 0)
    /\ UNCHANGED <<track, clip, ctor, arg>>
    /\ UNCHANGED non_core_vars

\* Timeline::remove_audio_clip
remove_audio_clip(clip_id) ==
    /\ LET result == remove_clip(timeline.audio_track, clip_id)
           tl == [timeline EXCEPT !.audio_track = result.track]
       IN /\ timeline' = IF result.some THEN update_duration(tl) ELSE tl
          /\ last' = Call("remove_audio_clip", clip_id, result.some, 0)
    /\ UNCHANGED <<track, clip, ctor, arg>>
    /\ UNCHANGED non_core_vars

\* Timeline::set_playhead on a Timeline value:
\* position.max(0).min(self.duration)
Timeline_set_playhead(tl, position) ==
    [tl EXCEPT !.playhead = Min2(Max2(position, 0), tl.duration)]

\* Timeline::set_playhead
set_playhead(position) ==
    /\ timeline' = Timeline_set_playhead(timeline, position)
    /\ last' = Call("set_playhead", position, TRUE, 0)
    /\ UNCHANGED <<track, clip, ctor, arg>>
    /\ UNCHANGED non_core_vars

----------------------------------------------------------------------------
(* The objects of playback and decoding as their constructors leave them *)

\* SyncController::new
SyncControllerNew == [master_clock |-> 0, timeline_start |-> 0]

\* AudioPlayer::new.  stream is "none" for None, else the run state of the
\* cpal stream held in Some: "playing" or "paused"
AudioPlayerNew(tl) ==
    [mixer_timeline |-> tl,
     stream |-> "none",
     master_clock |-> 0,
     playback_start |-> FALSE,
     timeline_start_position |-> 0]

\* enum PlaybackState; the Instant of Playing is not modelled
Stopped == [kind |-> "Stopped"]
Playing(timeline_start) == [kind |-> "Playing", timeline_start |-> timeline_start]
Paused(timeline_position) == [kind |-> "Paused", timeline_position |-> timeline_position]
Seeking(target) == [kind |-> "Seeking", target |-> target]

\* AudioClock::new; stream as in AudioPlayerNew
AudioClockNew ==
    [stream |-> "none",
     master_clock |-> 0,
     timeline_start |-> 0,
     is_playing |-> FALSE,
     is_paused |-> FALSE]

\* the audio callback thread between two invocations of the callback
CallbackIdle == [pc |-> "idle", duration_nanos |-> 0, current_time |-> 0]

\* HashMap::new
EmptyMap == [k \in {} |-> 0]

\* FrameCache::new
FrameCacheNew(cache_window_nanos, max_cache_size) ==
    [cache |-> EmptyMap,
     cache_window_size |-> cache_window_nanos,
     max_cache_size |-> max_cache_size]

\* ExportSettings::default, with the sample rate and the picture size
\* scaled down
ExportSettings(fps, sample_rate) ==
    [width |-> 2, height |-> 1, fps |-> fps, sample_rate |-> sample_rate,
     channels |-> 2]
ExportSettingsDefault == ExportSettings(30, 50)

\* Encoder::new, as the calls it has received: attempts count every call,
\* the other counters the calls that returned Ok; frame is the picture of
\* the last encode_video_frame call and chunk the number of samples of the
\* last encode_audio_samples call
EncoderNew ==
    [attempts |-> 0, video_frames |-> 0, audio_chunks |-> 0,
     audio_samples |-> 0, chunk |-> 0, finished |-> FALSE,
     frame |-> [black |-> FALSE, width |-> 0, height |-> 0, len |-> 0]]

\* Exporter::new, with the locals of the export() call it will run: pc is
\* the position in export(), and "Ok" and "Err" are its two returns;
\* audio_errors counts the "Failed to decode audio" warnings on stderr
ExporterNew(tl, settings) ==
    [timeline |-> tl,
     settings |-> settings,
     pc |-> "new",
     encoder |-> EncoderNew,
     decoders |-> {},
     decode_calls |-> 0,
     audio_errors |-> 0,
     frame_duration_ns |-> 0,
     samples_per_frame |-> 0,
     audio_buffer |-> 0,
     timeline_time_ns |-> 0,
     frame_num |-> 0]

\* playback, decoding and export objects freshly constructed and left alone
InitNonCore ==
    /\ sync = SyncControllerNew
    /\ player = AudioPlayerNew(TimelineNew)
    /\ state = Stopped
    /\ aclock = AudioClockNew
    /\ cb = CallbackIdle
    /\ observed = <<>>
    /\ log = <<>>
    /\ cache = FrameCacheNew(1, 4)
    /\ exporter = ExporterNew(TimelineNew, ExportSettingsDefault)

\* the editing session: a fresh Timeline and the calls made on it
Init ==
    /\ InitNonCore
    /\ timeline = TimelineNew
    /\ track = TrackNew(1, "Video")
    /\ clip = NoClip
    /\ ctor = NoClip
    /\ arg = NoClip
    /\ last = Call("new", 0, TRUE, 0)

Next ==
    \/ \E c \in TimelineClips : add_video_clip(c)
    \/ \E c \in TimelineClips : add_audio_clip(c)
    \/ \E id \in ClipIds : remove_video_clip(id)
    \/ \E id \in ClipIds : remove_audio_clip(id)
    \/ \E p \in Positions : set_playhead(p)

Spec == Init /\ [][Next]_vars

----------------------------------------------------------------------------
(* A Track used on its own: Track::new, then add_clip / remove_clip *)

Track_add_clip(c) ==
    /\ \/ Len(track.clips) < MaxTrackClips
       \/ \E i \in 1..Len(track.clips) : overlaps_with(c, track.clips[i])
    /\ LET r == add_clip(track, c)
       IN /\ track' = r.track
          /\ last' = Call("add_clip", c.id, r.ok, r.clip_id)
    /\ arg' = c
    /\ UNCHANGED <<timeline, clip, ctor>>
    /\ UNCHANGED non_core_vars

Track_remove_clip(clip_id) ==
    /\ LET result == remove_clip(track, clip_id)
       IN /\ track' = result.track
          /\ last' = Call("remove_clip", clip_id, result.some, 0)
    /\ arg' = NoClip
    /\ UNCHANGED <<timeline, clip, ctor>>
    /\ UNCHANGED non_core_vars

NextTrack ==
    \/ \E c \in Clips : Track_add_clip(c)
    \/ \E id \in ClipIds : Track_remove_clip(id)

SpecTrack == Init /\ [][NextTrack]_vars

----------------------------------------------------------------------------
(* A Clip used on its own: Clip::new, then its mutators *)

InitClip ==
    /\ InitNonCore
    /\ timeline = TimelineNew
    /\ track = TrackNew(1, "Video")
    /\ \E c \in SoloClips : clip = c /\ ctor = c
    /\ arg = NoClip
    /\ last = Call("new", 0, TRUE, 0)

Clip_trim_in(new_in_point) ==
    /\ LET r == trim_in(clip, new_in_point)
       IN /\ clip' = r.clip
          /\ last' = Call("trim_in", new_in_point, r.ret, 0)
    /\ UNCHANGED <<timeline, track, ctor, arg>>
    /\ UNCHANGED non_core_vars

Clip_trim_out(new_out_point) ==
    /\ LET r == trim_out(clip, new_out_point)
       IN /\ clip' = r.clip
          /\ last' = Call("trim_out", new_out_point, r.ret, 0)
    /\ UNCHANGED <<timeline, track, ctor, arg>>
    /\ UNCHANGED non_core_vars

Clip_set_timeline_start(new_timeline_start) ==
    /\ clip' = set_timeline_start(clip, new_timeline_start)
    /\ last' = Call("set_timeline_start", new_timeline_start, TRUE, 0)
    /\ UNCHANGED <<timeline, track, ctor, arg>>
    /\ UNCHANGED non_core_vars

Clip_move_to(new_timeline_start) ==
    /\ clip' = move_to(clip, new_timeline_start)
    /\ last' = Call("move_to", new_timeline_start, TRUE, 0)
    /\ UNCHANGED <<timeline, track, ctor, arg>>
    /\ UNCHANGED non_core_vars

Clip_timeline_to_source(timeline_position) ==
    /\ LET r == timeline_to_source(clip, timeline_position)
       IN last' = Call("timeline_to_source", timeline_position, r.some, r.val)
    /\ UNCHANGED <<timeline, track, clip, ctor, arg>>
    /\ UNCHANGED non_core_vars

Clip_source_to_timeline(source_position) ==
    /\ LET r == source_to_timeline(clip, source_position)
       IN last' = Call("source_to_timeline", source_position, r.some, r.val)
    /\ UNCHANGED <<timeline, track, clip, ctor, arg>>
    /\ UNCHANGED non_core_vars

NextClip ==
    \/ \E x \in TrimPoints : Clip_trim_in(x)
    \/ \E x \in TrimPoints : Clip_trim_out(x)
    \/ \E s \in Positions : Clip_set_timeline_start(s)
    \/ \E s \in Positions : Clip_move_to(s)
    \/ \E t \in Positions : Clip_timeline_to_source(t)
    \/ \E s \in TrimPoints : Clip_source_to_timeline(s)

SpecClip == InitClip /\ [][NextClip]_vars

----------------------------------------------------------------------------
(* playback/sync.rs: the SyncController used on its own by one thread *)

\* start that resets the elapsed cell but keeps the old timeline_start
SyncController_start_keeps_offset(self, timeline_position) ==
    [self EXCEPT !.master_clock = 0]

\* SyncController::start
SyncController_start(self, timeline_position) ==
    [self EXCEPT !.timeline_start = timeline_position, !.master_clock = 0]

\* SyncController::stop
SyncController_stop(self) == [self EXCEPT !.master_clock = 0]

\* SyncController::current_timeline_position
current_timeline_position(self) ==
    LET elapsed_ns == self.master_clock
    IN self.timeline_start + elapsed_ns

\* SyncController::update_clock: a store of the argument
update_clock(self, nanoseconds) == [self EXCEPT !.master_clock = nanoseconds]

\* SyncController::seek
SyncController_seek(self, position) ==
    [self EXCEPT !.timeline_start = position, !.master_clock = 0]

\* the log with one more call, cut to the LogLen most recent
Logged(op, num, out) ==
    LET l == Append(log, [op |-> op, num |-> num, out |-> out])
    IN IF Len(l) > LogLen THEN Tail(l) ELSE l

Sync_start(timeline_position) ==
    /\ sync' = SyncController_start(sync, timeline_position)
    /\ last' = Call("start", timeline_position, TRUE, 0)
    /\ log' = Logged("start", timeline_position, 0)
    /\ UNCHANGED <<core_vars, player, state, aclock, cb, observed, cache, exporter>>

Sync_stop ==
    /\ sync' = SyncController_stop(sync)
    /\ last' = Call("stop", 0, TRUE, 0)
    /\ log' = Logged("stop", 0, 0)
    /\ UNCHANGED <<core_vars, player, state, aclock, cb, observed, cache, exporter>>

Sync_update_clock(nanoseconds) ==
    /\ sync' = update_clock(sync, nanoseconds)
    /\ last' = Call("update_clock", nanoseconds, TRUE, 0)
    /\ log' = Logged("update_clock", nanoseconds, 0)
    /\ UNCHANGED <<core_vars, player, state, aclock, cb, observed, cache, exporter>>

Sync_seek(position) ==
    /\ sync' = SyncController_seek(sync, position)
    /\ last' = Call("seek", position, TRUE, 0)
    /\ log' = Logged("seek", position, 0)
    /\ UNCHANGED <<core_vars, player, state, aclock, cb, observed, cache, exporter>>

Sync_current_timeline_position ==
    /\ last' = Call("current_timeline_position", 0, TRUE,
                    current_timeline_position(sync))
    /\ log' = Logged("current_timeline_position", 0,
                     current_timeline_position(sync))
    /\ UNCHANGED <<core_vars, sync, player, state, aclock, cb, observed, cache, exporter>>

NextSync ==
    \/ \E p \in ClockPositions : Sync_start(p)
    \/ Sync_stop
    \/ \E d \in Durations : Sync_update_clock(d)
    \/ \E q \in ClockPositions : Sync_seek(q)
    \/ Sync_current_timeline_position

SpecSync == Init /\ [][NextSync]_vars

----------------------------------------------------------------------------
(* media/audio.rs: the AudioClock, its control thread, its audio callback   *)
(* thread and a thread that reads the clock.  Every method is one step of   *)
(* the control thread; the callback is three steps (the flag check, the     *)
(* load of master_clock, the store), so that control calls and reads fall   *)
(* between them.  Dropping the cpal stream returns once a callback that is  *)
(* executing has returned; pausing it does not wait.                        *)

\* AudioClock::stop_playback; pause_ok: stream.pause() returned Ok
stop_playback(self, pause_ok) ==
    IF self.stream # "none" /\ ~pause_ok
    THEN [clock |-> [self EXCEPT !.stream = "none"], ok |-> FALSE]
    ELSE [clock |-> [self EXCEPT !.stream = "none",
                                 !.is_playing = FALSE,
                                 !.is_paused = FALSE],
          ok |-> TRUE]

\* AudioClock::start_playback; build_ok: build_output_stream and
\* stream.play() returned Ok
start_playback(self, start_time_ns, pause_ok, build_ok) ==
    LET stopped == IF self.stream # "none"
                   THEN stop_playback(self, pause_ok)
                   ELSE [clock |-> self, ok |-> TRUE]
        started == [stopped.clock EXCEPT !.timeline_start = start_time_ns,
                                         !.master_clock = start_time_ns,
                                         !.is_playing = TRUE,
                                         !.is_paused = FALSE]
    IN IF ~stopped.ok THEN stopped
       ELSE IF ~build_ok THEN [clock |-> started, ok |-> FALSE]
       ELSE [clock |-> [started EXCEPT !.stream = "playing"], ok |-> TRUE]

\* AudioClock::pause
AudioClock_pause(self, pause_ok) ==
    IF self.stream # "none" /\ pause_ok
    THEN [clock |-> [self EXCEPT !.stream = "paused", !.is_paused = TRUE],
          ok |-> TRUE]
    ELSE [clock |-> self, ok |-> FALSE]

\* AudioClock::resume
AudioClock_resume(self, play_ok) ==
    IF self.stream # "none" /\ play_ok
    THEN [clock |-> [self EXCEPT !.stream = "playing", !.is_paused = FALSE],
          ok |-> TRUE]
    ELSE [clock |-> self, ok |-> FALSE]

\* AudioClock::seek
AudioClock_seek(self, position_ns) ==
    [self EXCEPT !.timeline_start = position_ns, !.master_clock = position_ns]

\* AudioClock::current_time
current_time(self) == self.master_clock

\* the reads since the last control call, with one more: the two most recent
Observed(value) ==
    IF observed = <<>> THEN <<value>> ELSE <<observed[Len(observed)], value>>

AClock_start_playback(start_time_ns, pause_ok, build_ok) ==
    /\ aclock.stream # "none" => cb.pc = "idle"
    /\ LET r == start_playback(aclock, start_time_ns, pause_ok, build_ok)
       IN /\ aclock' = r.clock
          /\ last' = Call("start_playback", start_time_ns, r.ok, 0)
    /\ observed' = <<>>
    /\ UNCHANGED <<core_vars, sync, player, state, cb, log, cache, exporter>>

AClock_stop_playback(pause_ok) ==
    /\ aclock.stream # "none" => cb.pc = "idle"
    /\ LET r == stop_playback(aclock, pause_ok)
       IN /\ aclock' = r.clock
          /\ last' = Call("stop_playback", 0, r.ok, 0)
    /\ observed' = <<>>
    /\ UNCHANGED <<core_vars, sync, player, state, cb, log, cache, exporter>>

AClock_pause(pause_ok) ==
    /\ LET r == AudioClock_pause(aclock, pause_ok)
       IN /\ aclock' = r.clock
          /\ last' = Call("pause", 0, r.ok, 0)
    /\ observed' = <<>>
    /\ UNCHANGED <<core_vars, sync, player, state, cb, log, cache, exporter>>

AClock_resume(play_ok) ==
    /\ LET r == AudioClock_resume(aclock, play_ok)
       IN /\ aclock' = r.clock
          /\ last' = Call("resume", 0, r.ok, 0)
    /\ observed' = <<>>
    /\ UNCHANGED <<core_vars, sync, player, state, cb, log, cache, exporter>>

AClock_seek(position_ns) ==
    /\ aclock' = AudioClock_seek(aclock, position_ns)
    /\ last' = Call("seek", position_ns, TRUE, 0)
    /\ observed' = <<>>
    /\ UNCHANGED <<core_vars, sync, player, state, cb, log, cache, exporter>>

AClock_current_time ==
    /\ observed' = Observed(current_time(aclock))
    /\ last' = Call("current_time", 0, TRUE, current_time(aclock))
    /\ UNCHANGED <<core_vars, sync, player, state, aclock, cb, log, cache, exporter>>

\* the callback is invoked with a buffer worth duration_nanos and checks
\* is_playing / is_paused: silence and return, or go on
AClock_callback_check(duration_nanos) ==
    /\ aclock.stream = "playing"
    /\ cb.pc = "idle"
    /\ aclock.master_clock + duration_nanos <= MaxClock
    /\ IF ~aclock.is_playing \/ aclock.is_paused
       THEN /\ cb' = CallbackIdle
            /\ last' = Call("callback", duration_nanos, FALSE, 0)
       ELSE /\ cb' = [pc |-> "filled", duration_nanos |-> duration_nanos,
                      current_time |-> 0]
            /\ last' = Call("callback", duration_nanos, TRUE, 0)
    /\ UNCHANGED <<core_vars, sync, player, state, aclock, observed, log, cache, exporter>>

\* let current_time = master_clock.load(Relaxed)
AClock_callback_load ==
    /\ cb.pc = "filled"
    /\ aclock.master_clock + cb.duration_nanos <= MaxClock
    /\ cb' = [cb EXCEPT !.pc = "loaded", !.current_time = aclock.master_clock]
    /\ UNCHANGED <<core_vars, last, sync, player, state, aclock, observed, log, cache, exporter>>

\* master_clock.store(current_time + duration_nanos, Relaxed)
AClock_callback_store ==
    /\ cb.pc = "loaded"
    /\ LET new_time == cb.current_time + cb.duration_nanos
       IN aclock' = [aclock EXCEPT !.master_clock = new_time]
    /\ cb' = CallbackIdle
    /\ UNCHANGED <<core_vars, last, sync, player, state, observed, log, cache, exporter>>

NextAudioClock ==
    \/ \E t \in ClockPositions, pause_ok, build_ok \in BOOLEAN :
            AClock_start_playback(t, pause_ok, build_ok)
    \/ \E pause_ok \in BOOLEAN : AClock_stop_playback(pause_ok)
    \/ \E pause_ok \in BOOLEAN : AClock_pause(pause_ok)
    \/ \E play_ok \in BOOLEAN : AClock_resume(play_ok)
    \/ \E q \in ClockPositions : AClock_seek(q)
    \/ AClock_current_time
    \/ \E d \in Durations : AClock_callback_check(d)
    \/ AClock_callback_load
    \/ AClock_callback_store

SpecAudioClock == Init /\ [][NextAudioClock]_vars

----------------------------------------------------------------------------
(* audio/player.rs and playback/engine.rs: the PlaybackEngine with its      *)
(* Timeline, PlaybackState, SyncController and AudioPlayer, driven by the   *)
(* control thread, and the audio callback of the AudioPlayer's stream (two  *)
(* steps: the load of master_clock and the store).                          *)

\* stop that pauses the stream instead of dropping it
AudioPlayer_stop_keeps_stream(self) ==
    [self EXCEPT !.stream = IF @ = "none" THEN "none" ELSE "paused",
                 !.playback_start = FALSE, !.master_clock = 0]

\* AudioPlayer::stop
AudioPlayer_stop(self) ==
    [self EXCEPT !.stream = "none", !.playback_start = FALSE, !.master_clock = 0]

\* AudioPlayer::play; build_ok: build_output_stream and stream.play()
\* returned Ok; dropped: the call dropped the stream it found (through
\* stop()); built: it called build_output_stream
AudioPlayer_play(self, timeline_position, build_ok) ==
    LET stopped == IF self.stream # "none" THEN AudioPlayer_stop(self) ELSE self
        started == [stopped EXCEPT !.timeline_start_position = timeline_position,
                                   !.playback_start = TRUE,
                                   !.master_clock = timeline_position]
    IN IF build_ok
       THEN [player |-> [started EXCEPT !.stream = "playing"], ok |-> TRUE,
             dropped |-> self.stream # "none", built |-> TRUE]
       ELSE [player |-> started, ok |-> FALSE,
             dropped |-> self.stream # "none", built |-> TRUE]

\* AudioPlayer::pause; pause_ok: stream.pause() returned Ok
AudioPlayer_pause(self, pause_ok) ==
    IF self.stream = "none" THEN [player |-> self, ok |-> TRUE]
    ELSE IF pause_ok
    THEN [player |-> [self EXCEPT !.stream = "paused"], ok |-> TRUE]
    ELSE [player |-> self, ok |-> FALSE]

\* AudioPlayer::seek
AudioPlayer_seek(self, position) ==
    [self EXCEPT !.timeline_start_position = position, !.master_clock = position]

\* AudioPlayer::update_timeline
AudioPlayer_update_timeline(self, tl) == [self EXCEPT !.mixer_timeline = tl]

\* a Timeline holding one video clip [0, 3), as add_video_clip leaves it
OneClipTimeline ==
    update_duration([TimelineNew EXCEPT !.video_track =
                        add_clip(@, ClipNew(1, "a.mp4", 0, 3, 0, 0)).track])

\* the Timelines handed to PlaybackEngine::new and to UpdateTimeline
EngineTimelines ==
    {TimelineNew} \cup {Timeline_set_playhead(OneClipTimeline, p) : p \in {0, 1}}

\* record of a process_command or update_playhead call: as Call, with
\* whether the call dropped an audio stream and whether it built one
EngineCall(op, num, ok, dropped, built) ==
    [op |-> op, num |-> num, ok |-> ok, out_id |-> 0,
     dropped |-> dropped, built |-> built]

\* PlaybackEngine::new
InitEngine ==
    /\ \E tl \in EngineTimelines :
            /\ timeline = tl
            /\ player = AudioPlayerNew(tl)
    /\ state = Stopped
    /\ sync = SyncControllerNew
    /\ cb = CallbackIdle
    /\ last = EngineCall("new", 0, TRUE, FALSE, FALSE)
    /\ track = TrackNew(1, "Video")
    /\ clip = NoClip
    /\ ctor = NoClip
    /\ arg = NoClip
    /\ aclock = AudioClockNew
    /\ observed = <<>>
    /\ log = <<>>
    /\ cache = FrameCacheNew(1, 4)
    /\ exporter = ExporterNew(TimelineNew, ExportSettingsDefault)

\* process_command(PlaybackCommand::Play)
Play(build_ok) ==
    /\ player.stream # "none" => cb.pc = "idle"
    /\ LET position == IF state.kind = "Paused" THEN state.timeline_position
                       ELSE timeline.playhead
           r == AudioPlayer_play(player, position, build_ok)
       IN /\ sync' = SyncController_start(sync, position)
          /\ player' = r.player
          /\ state' = IF r.ok THEN Playing(position) ELSE state
          /\ last' = EngineCall("Play", position, r.ok, r.dropped, r.built)
    /\ UNCHANGED <<timeline, track, clip, ctor, arg, aclock, cb, observed, log, cache, exporter>>

\* process_command(PlaybackCommand::Pause)
Pause(pause_ok) ==
    /\ LET position == current_timeline_position(sync)
           r == AudioPlayer_pause(player, pause_ok)
       IN /\ player' = r.player
          /\ state' = IF r.ok THEN Paused(position) ELSE state
          /\ last' = EngineCall("Pause", position, r.ok, FALSE, FALSE)
    /\ UNCHANGED <<core_vars, sync, aclock, cb, observed, log, cache, exporter>>

\* process_command(PlaybackCommand::Stop)
Stop ==
    /\ player.stream # "none" => cb.pc = "idle"
    /\ player' = AudioPlayer_stop(player)
    /\ sync' = SyncController_stop(sync)
    /\ state' = Stopped
    /\ last' = EngineCall("Stop", 0, TRUE, player.stream # "none", FALSE)
    /\ UNCHANGED <<core_vars, aclock, cb, observed, log, cache, exporter>>

\* process_command(PlaybackCommand::Seek(position))
Seek(position) ==
    /\ timeline' = Timeline_set_playhead(timeline, position)
    /\ sync' = SyncController_seek(sync, position)
    /\ player' = AudioPlayer_seek(player, position)
    /\ state' = Seeking(position)
    /\ last' = EngineCall("Seek", position, TRUE, FALSE, FALSE)
    /\ UNCHANGED <<track, clip, ctor, arg, aclock, cb, observed, log, cache, exporter>>

\* process_command(PlaybackCommand::UpdateTimeline(tl))
UpdateTimeline(tl) ==
    /\ timeline' = tl
    /\ player' = AudioPlayer_update_timeline(player, tl)
    /\ last' = EngineCall("UpdateTimeline", 0, TRUE, FALSE, FALSE)
    /\ UNCHANGED <<track, clip, ctor, arg, sync, state, aclock, cb, observed, log, cache, exporter>>

\* PlaybackEngine::update_playhead
update_playhead ==
    /\ timeline' = IF state.kind = "Playing"
                   THEN Timeline_set_playhead(timeline, current_timeline_position(sync))
                   ELSE timeline
    /\ last' = EngineCall("update_playhead", 0, TRUE, FALSE, FALSE)
    /\ UNCHANGED <<track, clip, ctor, arg, sync, player, state, aclock, cb, observed, log, cache, exporter>>

\* the AudioPlayer's callback is invoked with a buffer worth duration_nanos:
\* let current_time = master_clock.load(Relaxed)
Player_callback_load(duration_nanos) ==
    /\ player.stream = "playing"
    /\ cb.pc = "idle"
    /\ player.master_clock + duration_nanos <= MaxClock
    /\ cb' = [pc |-> "loaded", duration_nanos |-> duration_nanos,
              current_time |-> player.master_clock]
    /\ UNCHANGED <<core_vars, last, sync, player, state, aclock, observed, log, cache, exporter>>

\* master_clock.store(current_time + duration_nanos, Relaxed)
Player_callback_store ==
    /\ cb.pc = "loaded"
    /\ LET new_time == cb.current_time + cb.duration_nanos
       IN player' = [player EXCEPT !.master_clock = new_time]
    /\ cb' = CallbackIdle
    /\ UNCHANGED <<core_vars, last, sync, state, aclock, observed, log, cache, exporter>>

NextEngine ==
    \/ \E build_ok \in BOOLEAN : Play(build_ok)
    \/ \E pause_ok \in BOOLEAN : Pause(pause_ok)
    \/ Stop
    \/ \E position \in SeekTargets : Seek(position)
    \/ \E tl \in EngineTimelines : UpdateTimeline(tl)
    \/ update_playhead
    \/ \E d \in Durations : Player_callback_load(d)
    \/ Player_callback_store

SpecEngine == InitEngine /\ [][NextEngine]_vars

----------------------------------------------------------------------------
(* decode/frame_cache.rs: a FrameCache used by one thread *)

\* CacheKey and the part of VideoFrame the cache depends on
CacheKey(source_path, timestamp) ==
    [source_path |-> source_path, timestamp |-> timestamp]
VideoFrame(data, timestamp) == [data |-> data, timestamp |-> timestamp]

CacheKeys == {CacheKey(p, t) : p \in CachePaths, t \in FrameTimes}
VideoFrames == {VideoFrame(d, t) : d \in FrameData, t \in FrameTimes}

\* FrameCache::len
CacheLen(self) == Cardinality(DOMAIN self.cache)

\* what keys().take(to_remove) can yield: a HashMap iterates in an
\* unspecified order, so any to_remove of the keys
TakeKeys(self, to_remove) ==
    {ks \in SUBSET (DOMAIN self.cache) : Cardinality(ks) = to_remove}

\* FrameCache::evict_oldest removing the keys `keys`, one of
\* TakeKeys(self, self.cache.len() / 4)
evict_oldest(self, keys) ==
    [self EXCEPT !.cache = [k \in (DOMAIN @) \ keys |-> @[k]]]

\* FrameCache::insert; keys as in evict_oldest
insert(self, source_path, frame, keys) ==
    LET key == CacheKey(source_path, frame.timestamp)
        evicted == IF CacheLen(self) >= self.max_cache_size
                   THEN evict_oldest(self, keys)
                   ELSE self
    IN [evicted EXCEPT !.cache =
            [k \in (DOMAIN @) \cup {key} |-> IF k = key THEN frame ELSE @[k]]]

\* FrameCache::get
get(self, source_path, timestamp) ==
    LET key == CacheKey(source_path, timestamp)
    IN IF key \in DOMAIN self.cache
       THEN [some |-> TRUE, frame |-> self.cache[key]]
       ELSE [some |-> FALSE, frame |-> VideoFrame(0, 0)]

\* FrameCache::cache_window (the saturating operations do not saturate in
\* the explored range)
cache_window(self, playhead_time) ==
    [start |-> playhead_time - self.cache_window_size,
     end |-> playhead_time + self.cache_window_size]

\* FrameCache::is_in_window
is_in_window(self, timestamp, playhead_time) ==
    LET w == cache_window(self, playhead_time)
    IN timestamp >= w.start /\ timestamp <= w.end

\* FrameCache::trim_to_window with the retain closure applied to the keys of
\* every source
trim_to_window_every_source(self, source_path, playhead_time) ==
    LET w == cache_window(self, playhead_time)
        kept == {key \in DOMAIN self.cache :
                    key.timestamp >= w.start /\ key.timestamp <= w.end}
    IN [self EXCEPT !.cache = [k \in kept |-> @[k]]]

\* FrameCache::trim_to_window
trim_to_window(self, source_path, playhead_time) ==
    LET w == cache_window(self, playhead_time)
        kept == {key \in DOMAIN self.cache :
                    IF key.source_path = source_path
                    THEN key.timestamp >= w.start /\ key.timestamp <= w.end
                    ELSE TRUE}
    IN [self EXCEPT !.cache = [k \in kept |-> @[k]]]

\* FrameCache::clear
clear(self) == [self EXCEPT !.cache = EmptyMap]

\* the record of a FrameCache call: the operation, its path and time
\* arguments and whether it found (get) or removed (trim_to_window) an entry
CacheCall(op, source_path, num, ok) ==
    [op |-> op, source_path |-> source_path, num |-> num, ok |-> ok]

\* FrameCache::new with a half-window of 1 and a capacity from Capacities
InitCache ==
    /\ \E n \in Capacities : cache = FrameCacheNew(1, n)
    /\ last = CacheCall("new", "", 0, TRUE)
    /\ timeline = TimelineNew
    /\ track = TrackNew(1, "Video")
    /\ clip = NoClip
    /\ ctor = NoClip
    /\ arg = NoClip
    /\ sync = SyncControllerNew
    /\ player = AudioPlayerNew(TimelineNew)
    /\ state = Stopped
    /\ aclock = AudioClockNew
    /\ cb = CallbackIdle
    /\ observed = <<>>
    /\ log = <<>>
    /\ exporter = ExporterNew(TimelineNew, ExportSettingsDefault)

Cache_insert(source_path, frame) ==
    /\ \E keys \in TakeKeys(cache, CacheLen(cache) \div 4) :
            cache' = insert(cache, source_path, frame, keys)
    /\ last' = CacheCall("insert", source_path, frame.timestamp, TRUE)
    /\ UNCHANGED <<core_vars, sync, player, state, aclock, cb, observed, log, exporter>>

Cache_get(source_path, timestamp) ==
    /\ last' = CacheCall("get", source_path, timestamp,
                       get(cache, source_path, timestamp).some)
    /\ UNCHANGED <<core_vars, sync, player, state, aclock, cb, observed, log, cache, exporter>>

Cache_trim_to_window(source_path, playhead_time) ==
    /\ cache' = trim_to_window(cache, source_path, playhead_time)
    /\ last' = CacheCall("trim_to_window", source_path, playhead_time,
                       CacheLen(cache') < CacheLen(cache))
    /\ UNCHANGED <<core_vars, sync, player, state, aclock, cb, observed, log, exporter>>

Cache_clear ==
    /\ cache' = clear(cache)
    /\ last' = CacheCall("clear", "", 0, TRUE)
    /\ UNCHANGED <<core_vars, sync, player, state, aclock, cb, observed, log, exporter>>

NextCache ==
    \/ \E p \in CachePaths, f \in VideoFrames : Cache_insert(p, f)
    \/ \E p \in CachePaths, t \in FrameTimes : Cache_get(p, t)
    \/ \E p \in CachePaths, t \in FrameTimes : Cache_trim_to_window(p, t)
    \/ Cache_clear

SpecCache == InitCache /\ [][NextCache]_vars

\* FrameCache::insert observed with the order in which the cached keys were
\* inserted: log lists the keys of the cache, earliest insertion first, and
\* the call record names the keys evict_oldest removed
OrderedFrames == {f \in VideoFrames : f.data = 0}

OrderCall(op, key, evicted) == [op |-> op, key |-> key, evicted |-> evicted]

\* the keys of `order` outside `keys`, in the same order
RECURSIVE KeepOrder(_, _)
KeepOrder(order, keys) ==
    IF order = <<>> THEN <<>>
    ELSE IF Head(order) \in keys THEN KeepOrder(Tail(order), keys)
    ELSE <<Head(order)>> \o KeepOrder(Tail(order), keys)

InitCacheOrder ==
    /\ \E n \in Capacities : cache = FrameCacheNew(1, n)
    /\ last = OrderCall("new", CacheKey("", 0), {})
    /\ log = <<>>
    /\ timeline = TimelineNew
    /\ track = TrackNew(1, "Video")
    /\ clip = NoClip
    /\ ctor = NoClip
    /\ arg = NoClip
    /\ sync = SyncControllerNew
    /\ player = AudioPlayerNew(TimelineNew)
    /\ state = Stopped
    /\ aclock = AudioClockNew
    /\ cb = CallbackIdle
    /\ observed = <<>>
    /\ exporter = ExporterNew(TimelineNew, ExportSettingsDefault)

CacheOrder_insert(source_path, frame) ==
    \E keys \in TakeKeys(cache, CacheLen(cache) \div 4) :
        LET key == CacheKey(source_path, frame.timestamp)
            evicted == IF CacheLen(cache) >= cache.max_cache_size
                       THEN keys ELSE {}
            kept == KeepOrder(log, evicted)
        IN /\ cache' = insert(cache, source_path, frame, keys)
           /\ log' = IF key \in (DOMAIN cache.cache) \ evicted
                     THEN kept ELSE Append(kept, key)
           /\ last' = OrderCall("insert", key, evicted)
           /\ UNCHANGED <<core_vars, sync, player, state, aclock, cb,
                          observed, exporter>>

CacheOrder_clear ==
    /\ cache' = clear(cache)
    /\ log' = <<>>
    /\ last' = OrderCall("clear", CacheKey("", 0), {})
    /\ UNCHANGED <<core_vars, sync, player, state, aclock, cb, observed, exporter>>

NextCacheOrder ==
    \/ \E p \in CachePaths, f \in OrderedFrames : CacheOrder_insert(p, f)
    \/ CacheOrder_clear

SpecCacheOrder == InitCacheOrder /\ [][NextCacheOrder]_vars

----------------------------------------------------------------------------
(* export/exporter.rs: one Exporter::export call, a step per loop stage *)

NANOS_PER_SECOND == 1000000000

\* from_seconds(1.0 / fps): (seconds * NANOS_PER_SECOND as f64) as Time, a
\* truncation, which for the frame rates of ExportFps is the integer quotient
frame_duration(fps) == NANOS_PER_SECOND \div fps

\* (sample_rate as f64 * frame_duration_seconds) as usize
samples_per_frame(settings) == settings.sample_rate \div settings.fps

\* (sample_rate as f64 * to_seconds(end - start)) as usize in
\* decode_audio_range, the length of the Vec it returns on Ok
expected_samples(settings, start_time_ns, end_time_ns) ==
    (settings.sample_rate * (end_time_ns - start_time_ns)) \div NANOS_PER_SECOND

\* Track::clip_at: the first clip that contains the position
clip_at(self, timeline_position) ==
    LET hits == {i \in 1..Len(self.clips) :
                    contains(self.clips[i], timeline_position)}
    IN IF hits = {} THEN [some |-> FALSE, clip |-> NoClip]
       ELSE [some |-> TRUE,
             clip |-> self.clips[CHOOSE i \in hits : \A j \in hits : i <= j]]

\* Track::clips_in_range
clips_in_range(self, start, end) ==
    SelectSeq(self.clips,
              LAMBDA c : c.timeline_start <= end /\ c.timeline_end >= start)

\* the source paths export() collects from both tracks
source_paths(tl) ==
    {tl.video_track.clips[i].source_path : i \in 1..Len(tl.video_track.clips)}
    \cup
    {tl.audio_track.clips[i].source_path : i \in 1..Len(tl.audio_track.clips)}

\* the frame encode_black_frame builds
black_frame(settings) ==
    [black |-> TRUE, width |-> settings.width, height |-> settings.height,
     len |-> settings.width * settings.height * 4]

\* Exporter::scale_frame_if_needed: the frame as it is, on both paths
scale_frame_if_needed(frame) == frame

\* Encoder::encode_video_frame, Encoder::encode_audio_samples and
\* Encoder::finish, each with the Result it returns (ok); the bodies in
\* encoder.rs stand in for the FFmpeg calls, whose failure is the Err
encode_video_frame(self, frame, ok) ==
    [self EXCEPT !.attempts = @ + 1,
                 !.video_frames = IF ok THEN @ + 1 ELSE @,
                 !.frame = frame]
encode_audio_samples(self, samples, ok) ==
    [self EXCEPT !.attempts = @ + 1,
                 !.audio_chunks = IF ok THEN @ + 1 ELSE @,
                 !.audio_samples = IF ok THEN @ + samples ELSE @,
                 !.chunk = samples]
finish(self, ok) ==
    [self EXCEPT !.attempts = @ + 1, !.finished = ok]

\* the test of `while timeline_time_ns < duration_ns`
loop_test(self) ==
    IF self.timeline_time_ns < self.timeline.duration THEN "video" ELSE "flush"

\* export() up to the loop: Encoder::new and one Decoder::new per source path
export_begin(self, encoder_ok, decoders_ok) ==
    IF ~encoder_ok \/ (source_paths(self.timeline) # {} /\ ~decoders_ok)
    THEN [self EXCEPT !.pc = "Err"]
    ELSE LET begun == [self EXCEPT
                !.frame_duration_ns = frame_duration(self.settings.fps),
                !.samples_per_frame = samples_per_frame(self.settings),
                !.decoders = source_paths(self.timeline)]
         IN [begun EXCEPT !.pc = loop_test(begun)]

\* whether the video part of this iteration reaches decode_video_frame_at,
\* and whether it finds no decoder for the clip's path
video_lookup(self) ==
    LET found == clip_at(self.timeline.video_track, self.timeline_time_ns)
        mapped == IF found.some
                  THEN timeline_to_source(found.clip, self.timeline_time_ns)
                  ELSE None
    IN [clip |-> found.some,
        mapped |-> mapped.some,
        missing |-> mapped.some /\ found.clip.source_path \notin self.decoders,
        decodes |-> mapped.some /\ found.clip.source_path \in self.decoders]

\* the video part as ExportPipeline::export has it: a frame that fails to
\* decode is not replaced
export_video_skips_failed_decode(self, decoded, encode_ok) ==
    LET look == video_lookup(self)
    IN IF look.missing THEN [self EXCEPT !.pc = "Err"]
       ELSE IF look.decodes /\ ~decoded.ok
       THEN [self EXCEPT !.decode_calls = @ + 1, !.pc = "audio"]
       ELSE [self EXCEPT
                !.decode_calls = IF look.decodes THEN @ + 1 ELSE @,
                !.encoder = encode_video_frame(
                                @,
                                IF look.decodes
                                THEN scale_frame_if_needed(decoded.frame)
                                ELSE black_frame(self.settings),
                                encode_ok),
                !.pc = IF encode_ok THEN "audio" ELSE "Err"]

\* the video part of one iteration; decoded is what decode_video_frame_at
\* returns if it is called
export_video(self, decoded, encode_ok) ==
    LET look == video_lookup(self)
        frame == IF look.decodes /\ decoded.ok
                 THEN scale_frame_if_needed(decoded.frame)
                 ELSE black_frame(self.settings)
    IN IF look.missing THEN [self EXCEPT !.pc = "Err"]
       ELSE [self EXCEPT
                !.decode_calls = IF look.decodes THEN @ + 1 ELSE @,
                !.encoder = encode_video_frame(@, frame, encode_ok),
                !.pc = IF encode_ok THEN "audio" ELSE "Err"]

\* the end of the time range of this iteration
frame_end_time_ns(self) ==
    Min2(self.timeline_time_ns + self.frame_duration_ns, self.timeline.duration)

\* for one audio clip of clips_in_range: whether decode_audio_range is
\* reached, whether the decoder is missing, and the samples an Ok brings
audio_lookup(self, c) ==
    LET clip_start == Max2(c.timeline_start, self.timeline_time_ns)
        clip_end == Min2(c.timeline_end, frame_end_time_ns(self))
        source_start == timeline_to_source(c, clip_start)
        source_end == timeline_to_source(c, clip_end)
        mapped == clip_start < clip_end /\ source_start.some /\ source_end.some
    IN [missing |-> mapped /\ c.source_path \notin self.decoders,
        decodes |-> mapped /\ c.source_path \in self.decoders,
        samples |-> IF mapped
                    THEN expected_samples(self.settings, source_start.val,
                                          source_end.val)
                    ELSE 0]

\* the `for audio_clip in &audio_clips` loop from clip i on; failing holds
\* the indexes of the clips whose decode_audio_range returns Err
RECURSIVE decode_audio_clips(_, _, _, _)
decode_audio_clips(self, audio_clips, i, failing) ==
    IF i > Len(audio_clips) THEN self
    ELSE LET look == audio_lookup(self, audio_clips[i])
         IN IF look.missing THEN [self EXCEPT !.pc = "Err"]
            ELSE decode_audio_clips(
                    [self EXCEPT
                        !.decode_calls = IF look.decodes THEN @ + 1 ELSE @,
                        !.audio_errors = IF look.decodes /\ i \in failing
                                         THEN @ + 1 ELSE @,
                        !.audio_buffer = IF look.decodes /\ i \notin failing
                                         THEN @ + look.samples ELSE @],
                    audio_clips, i + 1, failing)

\* the audio part of one iteration up to the encoding loop
export_audio(self, failing) ==
    LET audio_clips == clips_in_range(self.timeline.audio_track,
                                      self.timeline_time_ns,
                                      frame_end_time_ns(self))
        decoded == decode_audio_clips(self, audio_clips, 1, failing)
    IN IF decoded.pc = "Err" THEN decoded
       ELSE [decoded EXCEPT
                !.audio_buffer = IF audio_clips = <<>>
                                 THEN @ + self.samples_per_frame ELSE @,
                !.pc = "encode_audio"]

\* the encoding loop with an Err of encode_audio_samples dropped
export_encode_audio_ignores_err(self, ok) ==
    [self EXCEPT
        !.audio_buffer = @ - self.samples_per_frame,
        !.encoder = encode_audio_samples(@, self.samples_per_frame, ok),
        !.pc = "encode_audio"]

\* one turn of `while audio_buffer.len() >= samples_per_frame`
export_encode_audio(self, ok) ==
    [self EXCEPT
        !.audio_buffer = @ - self.samples_per_frame,
        !.encoder = encode_audio_samples(@, self.samples_per_frame, ok),
        !.pc = IF ok THEN "encode_audio" ELSE "Err"]

\* the end of one iteration: advance to the next frame and test the loop
export_advance(self) ==
    LET advanced == [self EXCEPT
                        !.timeline_time_ns = @ + self.frame_duration_ns,
                        !.frame_num = @ + 1]
    IN [advanced EXCEPT !.pc = loop_test(advanced)]

\* the flush with the remaining samples encoded as they are, a short chunk
export_flush_unpadded(self, ok) ==
    IF self.audio_buffer = 0 THEN [self EXCEPT !.pc = "finish"]
    ELSE [self EXCEPT
            !.encoder = encode_audio_samples(@, self.audio_buffer, ok),
            !.pc = IF ok THEN "finish" ELSE "Err"]

\* the flush of the remaining samples, padded to samples_per_frame
export_flush(self, ok) ==
    IF self.audio_buffer = 0 THEN [self EXCEPT !.pc = "finish"]
    ELSE LET padded == Max2(self.audio_buffer, self.samples_per_frame)
         IN [self EXCEPT
                !.audio_buffer = padded,
                !.encoder = encode_audio_samples(@, padded, ok),
                !.pc = IF ok THEN "finish" ELSE "Err"]

\* encoder.finish()? and the return of export()
export_finish(self, ok) ==
    [self EXCEPT !.encoder = finish(@, ok),
                 !.pc = IF ok THEN "Ok" ELSE "Err"]

\* frame rates and sample rates of the exports
ExportFps == {25, 30}
ExportSampleRates == {20, 50}

\* encoder calls one export is followed for
MaxEncoderCalls == 120

\* what decode_video_frame_at can return: an Err, a frame of the export
\* size, a frame of another size
DecodedFrames ==
    {[black |-> FALSE, width |-> 2, height |-> 1, len |-> 8],
     [black |-> FALSE, width |-> 1, height |-> 1, len |-> 4]}
DecodeResults ==
    {[ok |-> FALSE, frame |-> [black |-> FALSE, width |-> 0, height |-> 0,
                               len |-> 0]]}
    \cup {[ok |-> TRUE, frame |-> f] : f \in DecodedFrames}

\* the timelines exported: an empty one; a one-second video clip at 0; a
\* video clip that starts 200 ms into the timeline; the one-second video clip
\* with a 100 ms audio clip, with an 80 ms audio clip (two frames at 25 fps),
\* and with two audio clips over the same 100 ms
ExportVideoClip == ClipNew(1, "a.mp4", 0, NANOS_PER_SECOND, 0, 0)
ExportLateClip == ClipNew(1, "a.mp4", 0, 800000000, 200000000, 0)
ExportAudioClip == ClipNew(2, "b.mp4", 0, 100000000, 0, 1)
ExportBoundaryClip == ClipNew(2, "b.mp4", 0, 80000000, 0, 1)
ExportOverlapClip == ClipNew(3, "a.mp4", 0, 100000000, 0, 1)
ExportTimeline(video, audio) ==
    update_duration([TimelineNew EXCEPT
                        !.video_track.clips = video,
                        !.audio_track.clips = audio])
ExportTimelines ==
    {TimelineNew,
     ExportTimeline(<<ExportVideoClip>>, <<>>),
     ExportTimeline(<<ExportLateClip>>, <<>>),
     ExportTimeline(<<ExportVideoClip>>, <<ExportAudioClip>>),
     ExportTimeline(<<ExportVideoClip>>, <<ExportBoundaryClip>>),
     ExportTimeline(<<ExportVideoClip>>, <<ExportAudioClip, ExportOverlapClip>>)}

\* record of one step of export(): clip and decode say whether a video clip
\* covered the time and what decode_video_frame_at returned ("none" when it
\* was not called), ok is the Result of the encoder call of the step (TRUE
\* when the step makes none)
ExportCall(op, covered, decode, ok) ==
    [op |-> op, clip |-> covered, decode |-> decode, ok |-> ok]

\* the variables an export leaves alone
playback_vars == <<sync, player, state, aclock, cb, observed, log, cache>>

\* Exporter::new
InitExport ==
    /\ \E tl \in ExportTimelines, fps \in ExportFps, rate \in ExportSampleRates :
            exporter = ExporterNew(tl, ExportSettings(fps, rate))
    /\ last = ExportCall("new", FALSE, "none", TRUE)
    /\ timeline = TimelineNew
    /\ track = TrackNew(1, "Video")
    /\ clip = NoClip
    /\ ctor = NoClip
    /\ arg = NoClip
    /\ sync = SyncControllerNew
    /\ player = AudioPlayerNew(TimelineNew)
    /\ state = Stopped
    /\ aclock = AudioClockNew
    /\ cb = CallbackIdle
    /\ observed = <<>>
    /\ log = <<>>
    /\ cache = FrameCacheNew(1, 4)

Export_begin(encoder_ok, decoders_ok) ==
    /\ exporter.pc = "new"
    /\ exporter' = export_begin(exporter, encoder_ok, decoders_ok)
    /\ last' = ExportCall("begin", FALSE, "none", encoder_ok)
    /\ UNCHANGED <<core_vars, playback_vars>>

Export_video(decoded, encode_ok) ==
    /\ exporter.pc = "video"
    /\ exporter' = export_video(exporter, decoded, encode_ok)
    /\ last' = LET look == video_lookup(exporter)
               IN ExportCall("video", look.clip,
                             IF ~look.decodes THEN "none"
                             ELSE IF decoded.ok THEN "Ok" ELSE "Err",
                             look.missing \/ encode_ok)
    /\ UNCHANGED <<core_vars, playback_vars>>

Export_audio(failing) ==
    /\ exporter.pc = "audio"
    /\ exporter' = export_audio(exporter, failing)
    /\ last' = ExportCall("audio", FALSE, "none", TRUE)
    /\ UNCHANGED <<core_vars, playback_vars>>

Export_encode_audio(ok) ==
    /\ exporter.pc = "encode_audio"
    /\ exporter.audio_buffer >= exporter.samples_per_frame
    /\ exporter.encoder.attempts < MaxEncoderCalls
    /\ exporter' = export_encode_audio(exporter, ok)
    /\ last' = ExportCall("encode_audio", FALSE, "none", ok)
    /\ UNCHANGED <<core_vars, playback_vars>>

Export_advance ==
    /\ exporter.pc = "encode_audio"
    /\ exporter.audio_buffer < exporter.samples_per_frame
    /\ exporter' = export_advance(exporter)
    /\ last' = ExportCall("advance", FALSE, "none", TRUE)
    /\ UNCHANGED <<core_vars, playback_vars>>

Export_flush(ok) ==
    /\ exporter.pc = "flush"
    /\ exporter' = export_flush(exporter, ok)
    /\ last' = ExportCall("flush", FALSE, "none", exporter.audio_buffer = 0 \/ ok)
    /\ UNCHANGED <<core_vars, playback_vars>>

Export_finish(ok) ==
    /\ exporter.pc = "finish"
    /\ exporter' = export_finish(exporter, ok)
    /\ last' = ExportCall("finish", FALSE, "none", ok)
    /\ UNCHANGED <<core_vars, playback_vars>>

NextExport ==
    \/ \E encoder_ok \in BOOLEAN, decoders_ok \in BOOLEAN :
            Export_begin(encoder_ok, decoders_ok)
    \/ \E decoded \in DecodeResults, encode_ok \in BOOLEAN :
            Export_video(decoded, encode_ok)
    \/ \E failing \in SUBSET {1, 2} : Export_audio(failing)
    \/ \E ok \in BOOLEAN : Export_encode_audio(ok)
    \/ Export_advance
    \/ \E ok \in BOOLEAN : Export_flush(ok)
    \/ \E ok \in BOOLEAN : Export_finish(ok)

SpecExport == InitExport /\ [][NextExport]_vars

\* export() keeps running: a call that can take a step takes it
SpecExportFair == SpecExport /\ WF_vars(NextExport)

----------------------------------------------------------------------------
(* media/audio.rs: the clock of an AudioClock whose callback runs alone,   *)
(* with the buffer sizes the device asks for                               *)

\* the sample rate of the device's default output configuration
DeviceSampleRate == 48000

\* the sample frames per channel the device asks for in one callback
BufferFrames == {256, 512, 1024}

\* (a as f64 * b as f64 / c as f64) as i64 for a * b beyond 32 bits:
\* a = q * c + r gives floor(a * b / c) = q * b + floor(r * b / c)
MulDivFloor(a, b, c) == (a \div c) * b + ((a % c) * b) \div c

\* the duration_nanos of the callback: from_seconds(samples_per_channel as
\* f64 / sample_rate as f64), a truncation
callback_duration(samples_per_channel, sample_rate) ==
    MulDivFloor(NANOS_PER_SECOND, samples_per_channel, sample_rate)

\* record of one callback: the frames per channel of its buffer
BufferCall(op, frames) == [op |-> op, frames |-> frames]

\* AudioClock::new and start_playback(P) returning Ok
InitBufferClock ==
    /\ \E P \in {0, NANOS_PER_SECOND} :
            aclock = start_playback(AudioClockNew, P, TRUE, TRUE).clock
    /\ log = <<>>
    /\ last = BufferCall("start_playback", 0)
    /\ timeline = TimelineNew
    /\ track = TrackNew(1, "Video")
    /\ clip = NoClip
    /\ ctor = NoClip
    /\ arg = NoClip
    /\ sync = SyncControllerNew
    /\ player = AudioPlayerNew(TimelineNew)
    /\ state = Stopped
    /\ cb = CallbackIdle
    /\ observed = <<>>
    /\ cache = FrameCacheNew(1, 4)
    /\ exporter = ExporterNew(TimelineNew, ExportSettingsDefault)

\* one whole callback on a buffer of samples_per_channel frames; log keeps
\* the buffers committed since start_playback
Buffer_callback(samples_per_channel) ==
    /\ Len(log) < LogLen
    /\ aclock.stream = "playing"
    /\ aclock.is_playing /\ ~aclock.is_paused
    /\ LET current == aclock.master_clock
           duration_nanos == callback_duration(samples_per_channel,
                                               DeviceSampleRate)
       IN aclock' = [aclock EXCEPT !.master_clock = current + duration_nanos]
    /\ log' = Append(log, samples_per_channel)
    /\ last' = BufferCall("callback", samples_per_channel)
    /\ UNCHANGED <<core_vars, sync, player, state, cb, observed, cache, exporter>>

NextBufferClock == \E frames \in BufferFrames : Buffer_callback(frames)

SpecBufferClock == InitBufferClock /\ [][NextBufferClock]_vars

----------------------------------------------------------------------------
(* core/time.rs: the frame index conversions *)

\* the frame rates and frame indexes converted
FrameRates == {30, 60}
FrameIndexes == 0..2

\* from_frame_index: from_seconds(frame_index as f64 / fps), a truncation
from_frame_index(frame_index, fps) == (frame_index * NANOS_PER_SECOND) \div fps

\* to_frame_index: (to_seconds(nanos) * fps).floor()
to_frame_index(nanos, fps) == (nanos * fps) \div NANOS_PER_SECOND

\* the times converted to frame indexes: the times of the FrameIndexes and
\* the multiples of 555_555 ns up to 60 of them
FrameTimesNs ==
    {from_frame_index(n, fps) : n \in FrameIndexes, fps \in FrameRates}
    \cup {k * 555555 : k \in 0..60}

\* record of a conversion: the frame rate, the argument and the result
TimeCall(op, fps, num, out) == [op |-> op, fps |-> fps, num |-> num, out |-> out]

InitTime ==
    /\ last = TimeCall("none", 30, 0, 0)
    /\ InitNonCore
    /\ timeline = TimelineNew
    /\ track = TrackNew(1, "Video")
    /\ clip = NoClip
    /\ ctor = NoClip
    /\ arg = NoClip

Time_from_frame_index(frame_index, fps) ==
    /\ last' = TimeCall("from_frame_index", fps, frame_index,
                        from_frame_index(frame_index, fps))
    /\ UNCHANGED <<core_vars, non_core_vars>>

\* times up to the time of the last of FrameIndexes, which keeps nanos * fps
\* within 32 bits
Time_to_frame_index(nanos, fps) ==
    /\ \E n \in FrameIndexes : nanos <= from_frame_index(n, fps)
    /\ last' = TimeCall("to_frame_index", fps, nanos, to_frame_index(nanos, fps))
    /\ UNCHANGED <<core_vars, non_core_vars>>

NextTime ==
    \/ \E n \in FrameIndexes, fps \in FrameRates : Time_from_frame_index(n, fps)
    \/ \E t \in FrameTimesNs, fps \in FrameRates : Time_to_frame_index(t, fps)

SpecTime == InitTime /\ [][NextTime]_vars

----------------------------------------------------------------------------
(* Properties of Track (checked under SpecTrack) *)

\* C1: in every state reached from an empty Track by add_clip and
\* remove_clip calls, track.clips is sorted by non-decreasing timeline_start
\* and for every two distinct clips a, b either a.timeline_end <=
\* b.timeline_start or b.timeline_end <= a.timeline_start.
C1_SortedNoOverlap ==
    LET cs == track.clips
    IN /\ \A i \in 1..(Len(cs) - 1) :
            cs[i].timeline_start <= cs[i + 1].timeline_start
       /\ \A i, j \in 1..Len(cs) :
            i # j => \/ cs[i].timeline_end <= cs[j].timeline_start
                     \/ cs[j].timeline_end <= cs[i].timeline_start

\* C1 witness: add_clip has just accepted a clip that had to be placed in
\* front of a clip added earlier.
C1_Witness ==
    /\ last.op = "add_clip" /\ last.ok
    /\ Len(track.clips) = 2
    /\ track.clips[1] = arg
    /\ track.clips[1].timeline_start < track.clips[2].timeline_start

SharesMoreThanInstant(a, b) ==
    Max2(a.timeline_start, b.timeline_start) < Min2(a.timeline_end, b.timeline_end)

\* the clips of a sequence, with multiplicity
ClipCount(cs, c) == Cardinality({i \in 1..Len(cs) : cs[i] = c})

\* C4: add_clip(c) succeeds iff c's timeline range shares more than a
\* boundary instant with no existing clip; a clip that only touches an
\* existing clip is accepted; on success the track holds exactly the previous
\* clips plus c.
C4_AcceptIffDisjoint ==
    [][last'.op = "add_clip" =>
        LET c == arg'
            old == track.clips
            new == track'.clips
            free == \A i \in 1..Len(old) : ~SharesMoreThanInstant(c, old[i])
        IN /\ last'.ok <=> free
           /\ last'.ok =>
                /\ Len(new) = Len(old) + 1
                /\ \A d \in Clips :
                     ClipCount(new, d) = ClipCount(old, d) + (IF d = c THEN 1 ELSE 0)
      ]_vars

----------------------------------------------------------------------------
(* Properties of Timeline (checked under Spec) *)

\* C2: when add_video_clip or add_audio_clip returns Err (Track::add_clip
\* rejected the clip), both tracks with their clips, the duration and the
\* playhead are exactly what they were before the call.
C2_RejectedAddChangesNothing ==
    [][(last'.op \in {"add_video_clip", "add_audio_clip"} /\ ~last'.ok)
            => timeline' = timeline]_vars

\* C2 witness: an add has just been rejected on a timeline that holds a clip
\* and has a playhead away from the origin.
C2_Witness ==
    /\ last.op \in {"add_video_clip", "add_audio_clip"} /\ ~last.ok
    /\ TotalClips >= 1
    /\ timeline.playhead > 0

\* the greatest timeline_end among a track's clips, 0 when it has none
EndsOf(tr) == {tr.clips[i].timeline_end : i \in 1..Len(tr.clips)}
GreatestEnd(tr) ==
    IF EndsOf(tr) = {} THEN 0
    ELSE CHOOSE m \in EndsOf(tr) : \A e \in EndsOf(tr) : e <= m

\* C5: after any sequence of add / remove / set_playhead calls, successful
\* or rejected, timeline.duration is the greater of the two tracks'
\* durations, a track's duration being its greatest timeline_end or 0.
C5_DurationIsMaxOfTracks ==
    timeline.duration =
        Max2(GreatestEnd(timeline.video_track), GreatestEnd(timeline.audio_track))

\* C5 witness: removing a video clip has just shortened a timeline that the
\* audio track still keeps longer than zero.
C5_Witness ==
    /\ last.op = "remove_video_clip" /\ last.ok
    /\ timeline.video_track.clips = <<>>
    /\ Len(timeline.audio_track.clips) = 1
    /\ timeline.duration > 0

\* C6: 0 <= playhead <= duration in every state reached through the Timeline
\* mutators, including right after a removal that shortens the timeline.
C6_PlayheadWithinDuration ==
    /\ 0 <= timeline.playhead
    /\ timeline.playhead <= timeline.duration

\* C7: set_playhead(p) leaves the playhead within [0, duration]: p itself if
\* 0 <= p <= duration, 0 if p < 0, duration if p > duration.
C7_SetPlayheadClamps ==
    last.op = "set_playhead" =>
        LET p == last.num
            d == timeline.duration
        IN /\ 0 <= timeline.playhead /\ timeline.playhead <= d
           /\ (0 <= p /\ p <= d) => timeline.playhead = p
           /\ p < 0 => timeline.playhead = 0
           /\ p > d => timeline.playhead = d

----------------------------------------------------------------------------
(* Properties of Clip (checked under SpecClip) *)

\* C8: a clip constructed with out_point > in_point keeps out_point >
\* in_point and timeline_end = timeline_start + (out_point - in_point) after
\* any sequence of trim_in, trim_out, move_to and set_timeline_start calls.
C8_ClipInvariant ==
    ctor.out_point > ctor.in_point =>
        /\ clip.out_point > clip.in_point
        /\ clip.timeline_end = clip.timeline_start + (clip.out_point - clip.in_point)

\* C8 witness: a well-formed clip that has been trimmed at both ends and
\* then moved.
C8_Witness ==
    /\ ctor.out_point > ctor.in_point
    /\ clip.in_point > ctor.in_point
    /\ clip.out_point < ctor.out_point
    /\ last.op = "move_to"
    /\ clip.timeline_start # ctor.timeline_start + (clip.in_point - ctor.in_point)

C10_TrimInEffect ==
    [][(last'.op = "trim_in" /\ last'.ok) =>
            LET new_in == last'.num
            IN /\ clip'.in_point = new_in
               /\ ClipDuration(clip') = clip.out_point - new_in
               /\ clip'.timeline_start =
                    clip.timeline_start + (new_in - clip.in_point)
               /\ clip'.out_point = clip.out_point
               /\ clip'.timeline_end = clip.timeline_end
      ]_vars

\* C10 witness: trim_in has just moved the in point of a clip forward.
C10_Witness ==
    /\ last.op = "trim_in" /\ last.ok
    /\ clip.in_point > ctor.in_point
    /\ clip.in_point = last.num
    /\ clip.timeline_start > ctor.timeline_start

\* C11: for every source time s in [in_point, out_point],
\* timeline_to_source(source_to_timeline(s)) = Some(s); for every timeline
\* time t in [timeline_start, timeline_end],
\* source_to_timeline(timeline_to_source(t)) = Some(t); outside those ranges
\* the respective mapping returns None.  This holds after any sequence of
\* trim and move calls.
C11_MappingRoundTrip ==
    /\ \A s \in Times :
          LET fwd == source_to_timeline(clip, s)
          IN IF clip.in_point <= s /\ s <= clip.out_point
             THEN fwd.some /\ timeline_to_source(clip, fwd.val) = Some(s)
             ELSE fwd = None
    /\ \A t \in Times :
          LET back == timeline_to_source(clip, t)
          IN IF clip.timeline_start <= t /\ t <= clip.timeline_end
             THEN back.some /\ source_to_timeline(clip, back.val) = Some(t)
             ELSE back = None

\* C11 witness: the out point of a clip trimmed at both ends and moved away
\* has just been mapped to the clip's timeline end.
C11_Witness ==
    /\ last.op = "source_to_timeline" /\ last.ok
    /\ clip.in_point > ctor.in_point
    /\ clip.out_point < ctor.out_point
    /\ clip.timeline_start # ctor.timeline_start + (clip.in_point - ctor.in_point)
    /\ last.num = clip.out_point
    /\ last.out_id = clip.timeline_end
    /\ last.out_id # last.num

----------------------------------------------------------------------------
(* Properties of Clip::overlaps_with (checked under SpecTrack) *)

\* the clips add_clip compares: those held by the track and the one handed in
Compared == {track.clips[i] : i \in 1..Len(track.clips)} \cup {arg}

\* C12: for any two clips a and b, if a.timeline_end <= b.timeline_start or
\* b.timeline_end <= a.timeline_start then a.overlaps_with(b) is false; if
\* their timeline ranges share more than a single instant it is true; and
\* a.overlaps_with(b) = b.overlaps_with(a).
C12_OverlapsWith ==
    \A a, b \in Compared :
        /\ (a.timeline_end <= b.timeline_start \/ b.timeline_end <= a.timeline_start)
                => ~overlaps_with(a, b)
        /\ SharesMoreThanInstant(a, b) => overlaps_with(a, b)
        /\ overlaps_with(a, b) <=> overlaps_with(b, a)

\* C12 witness: add_clip has just compared a clip with one it only touches
\* and with one whose range it cuts into.
C12_Witness ==
    /\ last.op = "add_clip" /\ ~last.ok
    /\ \E i, j \in 1..Len(track.clips) :
          /\ track.clips[i].timeline_end = arg.timeline_start
          /\ track.clips[i].timeline_end > track.clips[i].timeline_start
          /\ ~overlaps_with(arg, track.clips[i])
          /\ SharesMoreThanInstant(arg, track.clips[j])
          /\ overlaps_with(track.clips[j], arg)

\* C13: Clip::new rejects out_point <= in_point, so no clip with out_point <=
\* in_point is ever held by a track.
C13_NoDegenerateClipOnTrack ==
    \A i \in 1..Len(track.clips) :
        track.clips[i].out_point > track.clips[i].in_point

\* every clip of the track has a non-empty timeline range and no two of
\* them overlap
NonOverlapInvariant ==
    /\ \A i \in 1..Len(track.clips) :
            track.clips[i].timeline_end > track.clips[i].timeline_start
    /\ \A i, j \in 1..Len(track.clips) :
            i # j => ~overlaps_with(track.clips[i], track.clips[j])

\* C39: in a track that satisfies the non-overlap invariant at most one clip
\* contains any timeline time t, a boundary shared by two adjacent clips
\* included, so clip_at(t) does not depend on the order of the clips.
C39_AtMostOneClipContains ==
    NonOverlapInvariant =>
        \A t \in Times : \A i, j \in 1..Len(track.clips) :
            (contains(track.clips[i], t) /\ contains(track.clips[j], t)) => i = j

----------------------------------------------------------------------------
(* Properties of the SyncController (checked under SpecSync) *)

\* the n-th most recent call of the log (1 = the most recent)
Recent(n) == log[Len(log) + 1 - n]

\* C14: after start(P) followed by the audio side reporting buffers of
\* durations d1 and then d2, current_timeline_position() = P + d1 + d2; after
\* a subsequent seek(Q) the next read is exactly Q.
C14_ClockAddsReportedDurations ==
    /\ (/\ Len(log) >= 4
        /\ Recent(4).op = "start"
        /\ Recent(3).op = "update_clock"
        /\ Recent(2).op = "update_clock"
        /\ Recent(1).op = "current_timeline_position")
            => Recent(1).out = Recent(4).num + Recent(3).num + Recent(2).num
    /\ (/\ Len(log) >= 2
        /\ Recent(2).op = "seek"
        /\ Recent(1).op = "current_timeline_position")
            => Recent(1).out = Recent(2).num

----------------------------------------------------------------------------
(* Properties of the AudioClock (checked under SpecAudioClock) *)

\* C15: while playing, between two consecutive control calls, the clock is
\* monotonic: of two reads r1 then r2, made under any interleaving with the
\* audio callback, r2 >= r1.
C15_MonotonicBetweenControlCalls ==
    (Len(observed) = 2 /\ aclock.is_playing /\ ~aclock.is_paused)
        => observed[2] >= observed[1]

----------------------------------------------------------------------------
(* Properties of the PlaybackEngine (checked under SpecEngine) *)

\* C16: the engine starts in Stopped, and a Play command that succeeds from
\* Stopped or Paused moves it to Playing: from Paused{p} the clock is started
\* at p and the timeline_start of Playing is p; from Stopped both are the
\* timeline's playhead; right after Play, current_timeline_position() is
\* that start position.
C16_PlayStartsAtPosition ==
    /\ state = Stopped
    /\ [][(last'.op = "Play" /\ last'.ok /\ state.kind \in {"Stopped", "Paused"}) =>
            LET p == IF state.kind = "Paused" THEN state.timeline_position
                     ELSE timeline.playhead
            IN /\ state' = Playing(p)
               /\ sync'.timeline_start = p
               /\ current_timeline_position(sync') = p
               /\ player'.master_clock = p
               /\ player'.stream = "playing"
         ]_vars

\* C16 witness: Play has just resumed from a paused position that is not
\* the timeline's playhead.
C16_Witness ==
    /\ last.op = "Play" /\ last.ok
    /\ state.kind = "Playing"
    /\ state.timeline_start > 0
    /\ state.timeline_start # timeline.playhead
    /\ current_timeline_position(sync) = state.timeline_start

\* C17: a Pause command in a state other than Playing returns an error and
\* leaves the playback state as it was.
C17_PauseOnlyFromPlaying ==
    [][(last'.op = "Pause" /\ state.kind # "Playing")
            => (~last'.ok /\ state' = state)]_vars

\* C18: a Stop command from any state ends in Stopped with no audio output
\* stream alive and the clock's elapsed cell at 0.
C18_StopTearsDown ==
    last.op = "Stop" =>
        /\ state = Stopped
        /\ player.stream = "none"
        /\ sync.master_clock = 0
        /\ player.master_clock = 0

\* C18 witness: Stop has just ended a playback that was started at, or had
\* sought to, a position away from the origin.
C18_Witness ==
    /\ last.op = "Stop"
    /\ state = Stopped
    /\ player.stream = "none"
    /\ ~player.playback_start
    /\ player.timeline_start_position > 0
    /\ sync.timeline_start = player.timeline_start_position

\* C19: a Seek command does not leave the engine in Seeking: when it returns
\* the state is of the kind it was before (Playing or Paused), positioned at
\* the target.
C19_SeekResolves ==
    [][last'.op = "Seek" =>
            /\ state'.kind # "Seeking"
            /\ state.kind = "Playing" => state' = Playing(last'.num)
            /\ state.kind = "Paused" => state' = Paused(last'.num)
      ]_vars

----------------------------------------------------------------------------
(* Properties of the FrameCache (checked under SpecCache) *)

\* C20: after any sequence of insert, get, trim_to_window and clear on a
\* FrameCache of capacity N, for every N >= 1, len() <= N.
C20_LenWithinCapacity ==
    CacheLen(cache) <= cache.max_cache_size

----------------------------------------------------------------------------
(* Properties of FrameCache::trim_to_window (checked under SpecCache) *)

----------------------------------------------------------------------------
(* Properties of Exporter::export (checked under SpecExport) *)

\* C22: an export that returns Ok of a timeline whose duration is D whole
\* seconds, at the integer frame rate f, has encoded exactly D * f video
\* frames
C22_ExportsDurationTimesFps ==
    (exporter.pc = "Ok" /\ exporter.timeline.duration % NANOS_PER_SECOND = 0)
        => exporter.encoder.video_frames =
              (exporter.timeline.duration \div NANOS_PER_SECOND)
                  * exporter.settings.fps

C24_EncodeErrorAborts ==
    /\ [][(last'.op \in {"video", "encode_audio", "flush", "finish"}
            /\ ~last'.ok)
            => /\ exporter'.pc = "Err"
               /\ exporter'.encoder.attempts = exporter.encoder.attempts + 1]_vars
    /\ [][(exporter.pc = "video" /\ video_lookup(exporter).missing)
            => /\ exporter'.pc = "Err"
               /\ exporter'.encoder = exporter.encoder
               /\ exporter'.decode_calls = exporter.decode_calls]_vars
    /\ [][exporter.pc = "Err" => exporter' = exporter]_vars
    /\ [](exporter.pc = "Err" => ~exporter.encoder.finished)

\* an export has returned Err in its second iteration because
\* encode_audio_samples failed: two video frames and one audio chunk were
\* encoded before, and finish was not called
C24_Witness ==
    /\ exporter.pc = "Err"
    /\ last.op = "encode_audio"
    /\ ~last.ok
    /\ exporter.frame_num = 1
    /\ exporter.encoder.video_frames = 2
    /\ exporter.encoder.audio_chunks = 1
    /\ exporter.encoder.attempts = 4
    /\ ~exporter.encoder.finished

----------------------------------------------------------------------------
(* Properties of AudioClock under concurrent control calls (checked under
   SpecAudioClock) *)

\* C25: when the callback stores the clock and the last call recorded is a
\* seek(Q), so that the seek ran while this callback was executing, the value
\* stored is Q or Q plus the duration of this callback's buffer: never a
\* value computed from the clock as it was before the seek
C25_SeekNotLost ==
    [][(cb.pc = "loaded" /\ cb'.pc = "idle" /\ last.op = "seek")
        => aclock'.master_clock \in
              {last.num, last.num + cb.duration_nanos}]_vars

\* C26: while pause() returning Ok is the last call recorded and no other
\* call is made, the clock value current_time() returns does not change
C26_ConstantAfterPause ==
    [][(last.op = "pause" /\ last.ok /\ last' = last)
        => current_time(aclock') = current_time(aclock)]_vars

----------------------------------------------------------------------------
(* Properties of PlaybackEngine with the audio callback running (checked
   under SpecEngine) *)

\* C27: when a Play at P that returned Ok is the last command and the audio
\* callbacks that ran since have all finished, the AudioPlayer's clock holds
\* P + d, d being the total duration of their buffers; a Pause made then
\* yields Paused{timeline_position: P + d}, and an update_playhead made then
\* sets the playhead to min(P + d, duration)
C27_PauseReadsAdvancedClock ==
    [][(last.op = "Play" /\ last.ok /\ cb.pc = "idle")
        => /\ (last'.op = "Pause" /\ last'.ok)
                => state' = Paused(player.master_clock)
           /\ last'.op = "update_playhead"
                => timeline'.playhead =
                      Min2(player.master_clock, timeline.duration)]_vars

\* C28: right after a Seek(target) the timeline playhead and the position
\* the SyncController reports are the same value: target when
\* 0 <= target <= duration, and 0 or duration when target is out of range
C28_SeekPlayheadAndClockAgree ==
    [][last'.op = "Seek" =>
        LET target == last'.num
            clamped == IF target < 0 THEN 0
                       ELSE IF target > timeline.duration THEN timeline.duration
                       ELSE target
        IN /\ timeline'.playhead = clamped
           /\ current_timeline_position(sync') = clamped]_vars

\* C29: a Play made in state Paused, with the stream of the preceding Play
\* paused, neither drops that stream nor builds another one; a Pause drops
\* none either
C29_PlayAfterPauseResumesStream ==
    /\ [][(last'.op = "Play" /\ state.kind = "Paused"
            /\ player.stream = "paused")
            => (~last'.dropped /\ ~last'.built)]_vars
    /\ [][last'.op = "Pause" => ~last'.dropped]_vars

\* C30: a Play, Pause, Stop or Seek that returns Err leaves the playback
\* state, the timeline playhead and the SyncController (timeline_start and
\* the elapsed time in master_clock) as they were
C30_ErrChangesNothing ==
    [][(last'.op \in {"Play", "Pause", "Stop", "Seek"} /\ ~last'.ok)
        => /\ state' = state
           /\ timeline'.playhead = timeline.playhead
           /\ sync'.timeline_start = sync.timeline_start
           /\ sync'.master_clock = sync.master_clock]_vars

----------------------------------------------------------------------------
(* Properties of the callback's clock arithmetic (checked under
   SpecBufferClock) *)

RECURSIVE SumSeq(_)
SumSeq(s) == IF s = <<>> THEN 0 ELSE s[1] + SumSeq(Tail(s))

\* C31: after start_playback(P) and callbacks that committed F sample frames
\* in all at the sample rate R, the clock is P + floor(F * 10^9 / R),
\* however F was split into buffers
C31_NoRoundingDrift ==
    aclock.master_clock =
        aclock.timeline_start
            + MulDivFloor(NANOS_PER_SECOND, SumSeq(log), DeviceSampleRate)

----------------------------------------------------------------------------
(* Properties of the frame index conversions (checked under SpecTime) *)

\* C38: a to_frame_index call on the time a from_frame_index(n, fps) call
\* has just returned, at the same frame rate, returns n
C38_FrameIndexRoundTrip ==
    [][(last.op = "from_frame_index" /\ last'.op = "to_frame_index"
            /\ last'.fps = last.fps /\ last'.num = last.out)
        => last'.out = last.num]_vars

\* C32: when insert triggers an eviction on a cache of len entries, exactly
\* floor(len / 4) entries are removed and they are the ones inserted
\* earliest; every later entry survives.
C32_EvictsEarliestQuarter ==
    [][(last'.op = "insert" /\ CacheLen(cache) >= cache.max_cache_size)
        => /\ Cardinality(last'.evicted) = CacheLen(cache) \div 4
           /\ last'.evicted = {log[i] : i \in 1..(CacheLen(cache) \div 4)}]_vars

\* C33: insert evicts only when the new entry would push the count above
\* max_cache_size; inserting a key that is already cached replaces that
\* entry and removes no other, also in a cache that is exactly full.
C33_InsertEvictsOnlyOnOverflow ==
    [][last'.op = "insert" =>
        LET key == CacheKey(last'.source_path, last'.num)
        IN /\ key \in DOMAIN cache.cache
                => DOMAIN cache'.cache = DOMAIN cache.cache
           /\ (key \notin DOMAIN cache.cache
                    /\ CacheLen(cache) + 1 <= cache.max_cache_size)
                => DOMAIN cache'.cache = (DOMAIN cache.cache) \cup {key}]_vars

----------------------------------------------------------------------------
(* Properties of the audio side of Exporter::export (checked under         *)
(* SpecExport, termination under SpecExportFair)                           *)

\* no two clips of the exported audio track overlap
ExportAudioDisjoint ==
    LET cs == exporter.timeline.audio_track.clips
    IN \A i, j \in 1..Len(cs) : i # j => ~overlaps_with(cs[i], cs[j])

\* C34: audio and video have the same length in an export: whatever the
\* arrangement of the audio clips (none, a clip over part of a frame slot, a
\* clip that ends on a frame boundary, gaps), the samples passed to
\* encode_audio_samples number the encoded video frames times
\* samples_per_frame, up to the padding of the final chunk.
C34_AudioMatchesVideoLength ==
    (exporter.pc = "Ok" /\ exporter.audio_errors = 0 /\ ExportAudioDisjoint)
        => LET expected == exporter.encoder.video_frames
                                * exporter.samples_per_frame
               passed == exporter.encoder.audio_samples
           IN \/ passed = expected
              \/ /\ passed > expected - exporter.samples_per_frame
                 /\ passed < expected + exporter.samples_per_frame

\* C35: when decode_audio_range fails the exporter puts silence of the
\* range's expected length into the accumulator and goes on: the
\* accumulator grows as it does when the decode succeeds, and the audio step
\* does not end the export with an Err.
C35_AudioDecodeFailureGivesSilence ==
    [][(last'.op = "audio" /\ exporter.pc = "audio"
            /\ exporter'.audio_errors > exporter.audio_errors)
        => /\ exporter'.pc # "Err"
           /\ exporter'.audio_buffer = export_audio(exporter, {}).audio_buffer
      ]_vars

\* C36: every encode_audio_samples call carries exactly samples_per_frame
\* samples; a remainder shorter than that is carried to the next iteration
\* untouched, the last remainder is padded to a full chunk by the flush, and
\* an export that returns Ok made finish its last encoder call, with no call
\* after it.
C36_FullChunksThenFinish ==
    /\ [][(last'.op \in {"encode_audio", "flush"}
                /\ exporter'.encoder.attempts = exporter.encoder.attempts + 1)
            => exporter'.encoder.chunk = exporter.samples_per_frame]_vars
    /\ [][last'.op = "advance"
            => /\ exporter'.audio_buffer = exporter.audio_buffer
               /\ exporter.audio_buffer < exporter.samples_per_frame
               /\ exporter'.encoder = exporter.encoder]_vars
    /\ [](exporter.pc = "Ok" => (last.op = "finish" /\ exporter.encoder.finished))
    /\ [][last.op # "finish"]_vars

\* C36 witness: the loop left one sample of a two-sample chunk, and the flush
\* has passed it to the encoder as a full chunk, after earlier chunks.
C36_Witness ==
    /\ last.op = "flush" /\ last.ok
    /\ exporter.pc = "finish"
    /\ exporter.samples_per_frame = 2
    /\ exporter.audio_buffer = 2
    /\ exporter.encoder.chunk = 2
    /\ exporter.encoder.audio_chunks > 1
    /\ exporter.encoder.audio_samples = 2 * exporter.encoder.audio_chunks

\* C37: on a timeline whose audio track holds overlapping clips the export
\* takes the audio of a frame slot from the first covering clip only, as it
\* does on the video track: one decode_audio_range call at most per slot.
C37_FirstCoveringClipOnly ==
    [][(last'.op = "audio" /\ exporter.pc = "audio")
        => exporter'.decode_calls <= exporter.decode_calls + 1]_vars

\* C40: export() returns for every timeline and every settings with fps > 0
\* and sample_rate > 0: each turn of the drain loop shrinks the accumulator,
\* each iteration of the frame loop increases timeline_time, and the call
\* reaches one of its returns.
C40_ExportTerminates ==
    /\ [][last'.op = "encode_audio"
            => exporter'.audio_buffer < exporter.audio_buffer]_vars
    /\ [][last'.op = "advance"
            => exporter'.timeline_time_ns > exporter.timeline_time_ns]_vars
    /\ <>(exporter.pc \in {"Ok", "Err"})

============================================================================
